---- MODULE Spec2Model ----
(***************************************************************************)
(* A model of RODEM_Calo's two helper modules:                             *)
(*   src/models/dense.py : DenseNet.__init__, DenseNet.forward             *)
(*   src/models/flows.py : make_mask, coupling_spline_transformer,         *)
(*                         coupling_flow                                   *)
(* Tensors are abstracted to the sequence of operations applied to them;   *)
(* library objects (Linear, rq_spline, ReversePermutation, StandardNormal, *)
(* CompositeTransform, Flow) are records of their constructor arguments.   *)
(* The two modules do not share state, so each has its own specification:  *)
(* DenseSpec (a script that builds and runs DenseNets) and FlowSpec (a     *)
(* script that calls the flow factories).                                  *)
(***************************************************************************)
EXTENDS Integers, Sequences, FiniteSets, TLC

VARIABLES
    ipdim,       \* dense script: the input_dim it passes to DenseNet
    opdim,       \* dense script: the output_dim it passes to DenseNet
    callerList,  \* dense script: contents of the one list object it passes as node_list
    nets,        \* dense script: the DenseNet objects constructed so far
    fwd,         \* dense script: what the last forward() call did
    args,        \* flow script: the arguments it calls the factories with
    call,        \* the last call made (name and arguments as seen on entry)
    ret,         \* flow script: the object the last call returned
    warned,      \* the warnings.warn messages of the last call
    raised,      \* the exception the last call raised
    exited       \* the interpreter was terminated by exit()

vars == <<ipdim, opdim, callerList, nets, fwd, args, call, ret, warned, raised, exited>>

(* Python's None and a value that may be None: None is the empty sequence, *)
(* a present value x is <<x>>.                                             *)
None == <<>>

Some(x) == <<x>>

The(o) == o[1]

----------------------------------------------------------------------------
(* Bounds of the model. *)

MaxNets == 2      \* DenseNet constructions per script
MaxWidth == 2     \* input_dim / output_dim of the dense script range over 1..MaxWidth
MaxDim == 3       \* input_dim of the flow script ranges over 0..MaxDim
MaxStacks == 2    \* num_stacks of the flow script ranges up to MaxStacks (+ 1/2)

(* Program constants. *)
DefaultWidth == 10          \* node_list = [10, 10]
DefaultTailBounds == 1      \* tail_bounds=1.0
DefaultNumBins == 8         \* num_bins=8

----------------------------------------------------------------------------
(* Small helpers. *)

Last(s) == s[Len(s)]

NoCall == [fn |-> "none"]

----------------------------------------------------------------------------
(* src/models/dense.py                                                     *)

(* **kwargs is a set of <<key, value>> pairs. *)
HasKw(kwargs, key) == \E p \in kwargs : p[1] = key

GetKw(kwargs, key) == (CHOOSE p \in kwargs : p[1] = key)[2]

(* kwargs[key] if key in kwargs else default *)
KwOr(kwargs, key, default) == IF HasKw(kwargs, key) THEN GetKw(kwargs, key) ELSE default

(* if node_list is None: node_list = [10, 10] *)
DefaultNodeList == <<DefaultWidth, DefaultWidth>>

(* self.layers = node_list; if self.islast: self.layers += [output_dim]     *)
(* The value of the list object self.layers names after these lines; += on *)
(* a list extends the object in place.                                     *)
ExtendLayers(layers, islast, output_dim) ==
    IF islast THEN layers \o <<output_dim>> ELSE layers

(* if self.layernorm and self.batchnorm: batchnorm = 1; layernorm = 0       *)
(* The flags are kept by their truth value.                                *)
NormFlags(layernorm, batchnorm) ==
    IF layernorm /\ batchnorm
    THEN [layernorm |-> FALSE, batchnorm |-> TRUE]
    ELSE [layernorm |-> layernorm, batchnorm |-> batchnorm]

NormWarnings(layernorm, batchnorm) ==
    IF layernorm /\ batchnorm
    THEN <<"Both layernorm and batchnorm were set to True. Turning off layernorm.">>
    ELSE <<>>

(* torch.nn.Linear(in_features, out_features) *)
Linear(in, out) == [in |-> in, out |-> out]

(* self.contextual = Linear(context, self.layers[0]), only with a context *)
Contextual(context, layers) ==
    IF context # None THEN Some(Linear(The(context), layers[1])) ELSE None

(* Hidden with the comprehension one short: range(len(layers) - 2) *)
HiddenOneShort(input_dim, layers) ==
    <<Linear(input_dim, layers[1])>>
        \o [i \in 1..(Len(layers) - 2) |-> Linear(layers[i], layers[i + 1])]

(* self.hidden = ModuleList([Linear(ipdim, layers[0])]) extended by         *)
(* Linear(layers[i], layers[i + 1]) for i in range(len(layers) - 1)         *)
Hidden(input_dim, layers) ==
    <<Linear(input_dim, layers[1])>>
        \o [i \in 1..(Len(layers) - 1) |-> Linear(layers[i], layers[i + 1])]

(* self.layers[0] raises IndexError on an empty list (lines 43 and 45) *)
InitRaises(layers) == IF Len(layers) = 0 THEN Some("IndexError") ELSE None

(* The object DenseNet.__init__ leaves behind. ref says which list object  *)
(* self.layers names: the caller's ("caller") or the fresh default ("own").*)
NewNet(input_dim, output_dim, context, ref, layers, kwargs) ==
    LET flags == NormFlags(KwOr(kwargs, "layernorm", FALSE), KwOr(kwargs, "batchnorm", FALSE))
    IN  [ ipdim      |-> input_dim,
          opdim      |-> output_dim,
          op_activ   |-> "Identity",
          int_activ  |-> "relu",
          context    |-> context,
          layernorm  |-> flags.layernorm,
          batchnorm  |-> flags.batchnorm,
          islast     |-> KwOr(kwargs, "islast", TRUE),
          layersRef  |-> ref,
          ownLayers  |-> IF ref = "own" THEN layers ELSE <<>>,
          contextual |-> Contextual(context, layers),
          hidden     |-> Hidden(input_dim, layers) ]

(* DenseNet(ipdim, opdim, context=context, node_list=node_list, **kwargs)   *)
(* node_list is None or the caller's list object.                          *)
DenseNetInit(context, node_list, kwargs) ==
    LET ref    == IF node_list = None THEN "own" ELSE "caller"
        before == IF node_list = None THEN DefaultNodeList ELSE callerList
        islast == KwOr(kwargs, "islast", TRUE)
        layers == ExtendLayers(before, islast, opdim)
        exc    == InitRaises(layers)
    IN  /\ ~exited
        /\ Len(nets) < MaxNets
        /\ call' = [ fn |-> "DenseNet", input_dim |-> ipdim, output_dim |-> opdim,
                     context |-> context, node_list |-> node_list,
                     node_list_value |-> before, kwargs |-> kwargs ]
        /\ callerList' = IF ref = "caller" THEN layers ELSE callerList
        /\ raised' = exc
        /\ warned' = NormWarnings(KwOr(kwargs, "layernorm", FALSE),
                                  KwOr(kwargs, "batchnorm", FALSE))
        /\ nets' = IF exc = None
                   THEN Append(nets, NewNet(ipdim, opdim, context, ref, layers, kwargs))
                   ELSE nets
        /\ fwd' = <<>>
        /\ UNCHANGED <<ipdim, opdim, args, ret, exited>>

(* One operation applied to x in forward. *)
Op(name, i) == [op |-> name, layer |-> i]

(* for i, layer in enumerate(self.hidden[:-1]): ...  from index i on (1-based) *)
(* self.contextual of a net built without context raises AttributeError.    *)
RECURSIVE ForwardLoop(_, _, _, _)
ForwardLoop(net, context, i, acc) ==
    IF i > Len(net.hidden) - 1
    THEN [trace |-> acc, raised |-> None]
    ELSE LET x1 == Append(acc, Op("linear", i))
         IN  IF context # None /\ i = 1
             THEN IF net.contextual = None
                  THEN [trace |-> x1, raised |-> Some("AttributeError")]
                  ELSE ForwardLoop(net, context, i + 1,
                                   x1 \o <<Op("contextual", i), Op("int_activ", i)>>)
             ELSE ForwardLoop(net, context, i + 1, Append(x1, Op("int_activ", i)))

(* ForwardTail with the last layer sliced into the loop as well, so that it *)
(* gets int_activ too                                                      *)
ForwardTailActivated(net, acc) ==
    acc \o <<Op("linear", Len(net.hidden)), Op("int_activ", Len(net.hidden)),
             Op("op_activ", Len(net.hidden))>>

(* x = self.op_activ(self.hidden[-1](x)); return x *)
ForwardTail(net, acc) ==
    acc \o <<Op("linear", Len(net.hidden)), Op("op_activ", Len(net.hidden))>>

(* DenseNet.forward(x, context): the operations applied to x, in order *)
Forward(net, context) ==
    LET body == ForwardLoop(net, context, 1, <<>>)
    IN  IF body.raised # None THEN body
        ELSE [trace |-> ForwardTail(net, body.trace), raised |-> None]

(* nets[n].forward(x, context) *)
DenseNetForward(n, context) ==
    LET r == Forward(nets[n], context)
    IN  /\ ~exited
        /\ n \in 1..Len(nets)
        /\ call' = [fn |-> "forward", net |-> n, context |-> context]
        /\ fwd' = r.trace
        /\ raised' = r.raised
        /\ warned' = <<>>
        /\ UNCHANGED <<ipdim, opdim, callerList, nets, args, ret, exited>>

(* Inputs of the dense script. *)
Widths == 1..MaxWidth

CallerLists == {<<>>, <<2>>, <<3, 2>>}

ContextArgs == {None, Some(1)}

KwargsArgs ==
    { {}, {<<"layernorm", TRUE>>}, {<<"batchnorm", TRUE>>},
      {<<"layernorm", TRUE>>, <<"batchnorm", TRUE>>}, {<<"islast", FALSE>>} }

ForwardContexts == {None, Some("context")}

NoFlowArgs == [input_dim |-> 0, net_create_fn |-> None]

DenseInit ==
    /\ ipdim \in Widths
    /\ opdim \in Widths
    /\ callerList \in CallerLists
    /\ nets = <<>>
    /\ fwd = <<>>
    /\ args = NoFlowArgs
    /\ call = NoCall
    /\ ret = None
    /\ warned = <<>>
    /\ raised = None
    /\ exited = FALSE

DenseNext ==
    \/ \E context \in ContextArgs, node_list \in {None, Some("caller")}, kwargs \in KwargsArgs :
          DenseNetInit(context, node_list, kwargs)
    \/ \E n \in 1..MaxNets, context \in ForwardContexts :
          DenseNetForward(n, context)

DenseSpec == DenseInit /\ [][DenseNext]_vars

----------------------------------------------------------------------------
(* src/models/flows.py                                                     *)

(* [x] * n : n copies of x, none when n <= 0 *)
Repeat(x, n) == [i \in 1..n |-> x]

(* CeilHalf with integer division in place of the ceiling: input_dim // 2 *)
FloorHalf(input_dim) == input_dim \div 2

(* int(np.ceil(input_dim / 2)) *)
CeilHalf(input_dim) == -((-input_dim) \div 2)

(* make_mask(input_dim) *)
make_mask(input_dim) ==
    LET n_mask == CeilHalf(input_dim)
    IN  Repeat(1, n_mask) \o Repeat(0, input_dim - n_mask)

(* A number passed as num_stacks: an int, or a float that is a multiple of *)
(* 1/2; either way its value is halves / 2.                                *)
IntArg(n) == [isint |-> TRUE, halves |-> 2 * n]

FloatArg(h) == [isint |-> FALSE, halves |-> h]

(* isinstance(num_stacks, int) *)
IsInt(num) == num.isint

(* int(num_stacks): truncation towards zero *)
ToInt(num) ==
    IF num.halves >= 0 THEN num.halves \div 2 ELSE -((-num.halves) \div 2)

(* NoFactory with the test dropped: the function carries on *)
NoFactoryIgnored(net_create_fn) == FALSE

(* if net_create_fn is None: warn and exit() *)
NoFactory(net_create_fn) == net_create_fn = None

(* if tails is None: tails = "linear" *)
TailsOr(tails) == IF tails = None THEN "linear" ELSE The(tails)

(* if mask is None or len(mask) != input_dim *)
MaskMismatch(mask, input_dim) == mask = None \/ Len(The(mask)) # input_dim

(* the mask after lines 65-69 *)
AdjustMask(mask, input_dim) ==
    IF MaskMismatch(mask, input_dim) THEN make_mask(input_dim) ELSE The(mask)

(* nflows' PiecewiseRationalQuadraticCouplingTransform(mask, net_create_fn, ...) *)
rq_spline(mask, net_create_fn, tail_bound, num_bins, tails) ==
    [ kind |-> "rq_spline", mask |-> mask, transform_net_create_fn |-> net_create_fn,
      tail_bound |-> tail_bound, num_bins |-> num_bins, tails |-> tails,
      apply_unconditional_transform |-> FALSE ]

(* nflows' ReversePermutation(features) *)
ReversePermutation(features) == [kind |-> "ReversePermutation", features |-> features]

(* CouplingStack with the mask flipped in every second transform *)
CouplingStackAlternating(mask, net_create_fn, n, tail_bounds, num_bins, tails) ==
    [i \in 1..n |->
        rq_spline(IF i % 2 = 0 THEN [k \in 1..Len(mask) |-> 1 - mask[k]] ELSE mask,
                  net_create_fn, tail_bounds, num_bins, tails)]

(* for _ in range(num_stacks): transform_list += [rq_spline(mask, ...)] *)
CouplingStack(mask, net_create_fn, n, tail_bounds, num_bins, tails) ==
    [i \in 1..n |-> rq_spline(mask, net_create_fn, tail_bounds, num_bins, tails)]

(* TransformList with the closing permutation forgotten *)
TransformListNoPermutation(input_dim, mask, net_create_fn, n, tail_bounds, num_bins, tails) ==
    CouplingStack(mask, net_create_fn, n, tail_bounds, num_bins, tails)

(* transform_list after line 89 *)
TransformList(input_dim, mask, net_create_fn, n, tail_bounds, num_bins, tails) ==
    CouplingStack(mask, net_create_fn, n, tail_bounds, num_bins, tails)
        \o <<ReversePermutation(input_dim)>>

(* nflows' CompositeTransform(transforms) *)
CompositeTransform(transforms) == [kind |-> "CompositeTransform", transforms |-> transforms]

NoFactoryWarning == "No net create function was passed."

MaskWarning == "mask must match the input dimension"

NumStacksWarning == "num_stacks must be an integer."

(* coupling_spline_transformer(...): whether it ended in exit(), what it   *)
(* warned, and what it returned.                                           *)
Transformer(input_dim, net_create_fn, num_stacks, tails, tail_bounds, num_bins, mask) ==
    IF NoFactory(net_create_fn)
    THEN [exited |-> TRUE, warned |-> <<NoFactoryWarning>>, ret |-> None]
    ELSE LET tails1 == TailsOr(tails)
             mask1  == AdjustMask(mask, input_dim)
             n      == IF IsInt(num_stacks) THEN num_stacks.halves \div 2 ELSE ToInt(num_stacks)
         IN  [ exited |-> FALSE,
               warned |-> (IF MaskMismatch(mask, input_dim) THEN <<MaskWarning>> ELSE <<>>)
                          \o (IF IsInt(num_stacks) THEN <<>> ELSE <<NumStacksWarning>>),
               ret    |-> Some(CompositeTransform(
                              TransformList(input_dim, mask1, net_create_fn, n,
                                            tail_bounds, num_bins, tails1))) ]

(* nflows' StandardNormal(shape) *)
StandardNormal(shape) == [kind |-> "StandardNormal", shape |-> shape]

(* nflows' Flow(transform, distribution) *)
Flow(transform, distribution) ==
    [kind |-> "Flow", transform |-> transform, distribution |-> distribution]

(* the mask coupling_flow hands to coupling_spline_transformer: none, so   *)
(* the parameter's default                                                 *)
FlowMask == None

(* base_density = StandardNormal(shape=[input_dim]) *)
BaseDensity(base_density, input_dim) == StandardNormal(<<input_dim>>)

(* coupling_flow(...) *)
CouplingFlow(input_dim, net_create_fn, num_stacks, tails, tail_bounds, num_bins, base_density) ==
    LET t == Transformer(input_dim, net_create_fn, num_stacks, tails, tail_bounds,
                         num_bins, FlowMask)
    IN  IF t.exited THEN t
        ELSE [ exited |-> FALSE, warned |-> t.warned,
               ret |-> Some(Flow(The(t.ret), BaseDensity(base_density, input_dim))) ]

(* the script calls coupling_spline_transformer with its arguments *)
CallTransformer ==
    LET r == Transformer(args.input_dim, args.net_create_fn, args.num_stacks, args.tails,
                         args.tail_bounds, args.num_bins, args.mask)
    IN  /\ ~exited
        /\ call' = [fn |-> "coupling_spline_transformer"]
        /\ ret' = r.ret
        /\ warned' = r.warned
        /\ exited' = r.exited
        /\ raised' = None
        /\ UNCHANGED <<args, ipdim, opdim, callerList, nets, fwd>>

(* the script calls coupling_flow with its arguments *)
CallFlow ==
    LET r == CouplingFlow(args.input_dim, args.net_create_fn, args.num_stacks, args.tails,
                          args.tail_bounds, args.num_bins, args.base_density)
    IN  /\ ~exited
        /\ call' = [fn |-> "coupling_flow"]
        /\ ret' = r.ret
        /\ warned' = r.warned
        /\ exited' = r.exited
        /\ raised' = None
        /\ UNCHANGED <<args, ipdim, opdim, callerList, nets, fwd>>

(* Inputs of the flow script. *)
InputDims == 0..MaxDim

FactoryArgs == {None, Some("net_create_fn")}

NumStacksArgs ==
    {IntArg(n) : n \in -1..MaxStacks} \cup {FloatArg(h) : h \in -1..(2 * MaxStacks + 1)}

TailsArgs == {None, Some("linear")}

RECURSIVE Masks(_)
Masks(len) ==
    IF len = 0 THEN {<<>>}
    ELSE {Append(m, b) : m \in Masks(len - 1), b \in {0, 1}}

MaskArgs == {None} \cup {Some(m) : m \in UNION {Masks(len) : len \in 0..MaxDim}}

BaseDensityArgs == {"Gaussian", "Uniform"}

FlowArgs ==
    [ input_dim : InputDims, net_create_fn : FactoryArgs, num_stacks : NumStacksArgs,
      tails : TailsArgs, tail_bounds : {DefaultTailBounds}, num_bins : {DefaultNumBins},
      mask : MaskArgs, base_density : BaseDensityArgs ]

FlowInit ==
    /\ args \in FlowArgs
    /\ ipdim = 1
    /\ opdim = 1
    /\ callerList = <<>>
    /\ nets = <<>>
    /\ fwd = <<>>
    /\ call = NoCall
    /\ ret = None
    /\ warned = <<>>
    /\ raised = None
    /\ exited = FALSE

FlowNext == CallTransformer \/ CallFlow

FlowSpec == FlowInit /\ [][FlowNext]_vars

----------------------------------------------------------------------------
(* Properties of src/models/dense.py, checked under DenseSpec.              *)

(* the last call was a DenseNet construction that returned an object *)
Constructed == call.fn = "DenseNet" /\ raised = None

(* the last call was a forward() that returned *)
Forwarded == call.fn = "forward" /\ raised = None

(* the positions of fwd at which operation name was applied *)
Applied(name) == {k \in 1..Len(fwd) : fwd[k].op = name}

(* C1: constructing a DenseNet leaves the caller's node_list as it was on  *)
(* entry, and all networks constructed from the same node_list object and  *)
(* the same output_dim (default islast) have the same linear layers.       *)
C1_NodeListUnchanged ==
    /\ (Constructed /\ call.node_list # None) => callerList = call.node_list_value
    /\ \A i, j \in 1..Len(nets) :
          ( /\ nets[i].layersRef = "caller" /\ nets[i].islast
            /\ nets[j].layersRef = "caller" /\ nets[j].islast )
          => nets[i].hidden = nets[j].hidden

(* C3: a forward pass of a net built with layernorm=True (batchnorm=True)  *)
(* applies layer (batch) normalization, and a net built with neither flag  *)
(* applies none.                                                           *)
C3_NormalizationApplied ==
    Forwarded =>
        /\ nets[call.net].layernorm <=> Applied("layernorm") # {}
        /\ nets[call.net].batchnorm <=> Applied("batchnorm") # {}

(* C4: in a net built with a context dimension, whatever its layers, a     *)
(* forward call with a context adds the contextual projection exactly once,*)
(* right after the first linear layer and before the activation; a forward *)
(* call without a context adds none.                                       *)
C4_ContextAddedOnce ==
    (Forwarded /\ nets[call.net].context # None) =>
        IF call.context # None
        THEN /\ Applied("contextual") = {2}
             /\ fwd[1] = Op("linear", 1)
             /\ fwd[3].op \in {"int_activ", "op_activ"}
        ELSE Applied("contextual") = {}

(* C8: with islast true (the default), the linear layers of a constructed  *)
(* net are a chain of len(node_list) + 1 layers (node_list as passed, None *)
(* meaning [10, 10]): the first takes input_dim inputs, each later one     *)
(* takes as many inputs as the one before it has outputs, and the last has *)
(* output_dim outputs.                                                     *)
C8_LayerChain ==
    (Constructed /\ KwOr(call.kwargs, "islast", TRUE)) =>
        LET h  == Last(nets).hidden
            nl == IF call.node_list = None THEN <<10, 10>> ELSE call.node_list_value
        IN  /\ Len(h) = Len(nl) + 1
            /\ h[1].in = call.input_dim
            /\ \A i \in 2..Len(h) : h[i].in = h[i - 1].out
            /\ h[Len(h)].out = call.output_dim

(* C8 witness: a net constructed on the caller's list after an earlier     *)
(* construction on it, with four or more layers.                           *)
C8_Witness ==
    /\ Constructed /\ KwOr(call.kwargs, "islast", TRUE)
    /\ call.node_list # None
    /\ Len(nets) = 2
    /\ Len(Last(nets).hidden) >= 4

(* C9: forward applies the linear layers in construction order, int_activ  *)
(* once after each linear layer but the last, and op_activ exactly once,   *)
(* after the last linear layer.                                            *)
C9_ActivationOrder ==
    Forwarded =>
        LET L == Len(nets[call.net].hidden)
            IsLinear(o) == o.op = "linear"
            IsIntActiv(o) == o.op = "int_activ"
        IN  /\ SelectSeq(fwd, IsLinear) = [i \in 1..L |-> Op("linear", i)]
            /\ SelectSeq(fwd, IsIntActiv) = [i \in 1..(L - 1) |-> Op("int_activ", i)]
            /\ \A i \in 1..(L - 1) :
                  \E k, m \in 1..Len(fwd) :
                      /\ k < m
                      /\ fwd[k] = Op("linear", i)
                      /\ fwd[m] = Op("int_activ", i)
                      /\ \A q \in (m + 1)..Len(fwd) : fwd[q].layer > i
            /\ Applied("op_activ") = {Len(fwd)}
            /\ fwd[Len(fwd) - 1] = Op("linear", L)

(* C9 witness: a forward pass with context through three or more layers *)
C9_Witness ==
    /\ Forwarded
    /\ call.context # None
    /\ Len(nets[call.net].hidden) >= 3

----------------------------------------------------------------------------
(* Properties of src/models/flows.py, checked under FlowSpec.               *)

(* the last call returned an object *)
Returned == call.fn # "none" /\ ret # None

(* the transform list of the returned object: of the CompositeTransform    *)
(* itself, or of the one inside the returned Flow                          *)
Transforms ==
    IF The(ret).kind = "Flow" THEN The(ret).transform.transforms ELSE The(ret).transforms

(* the positions of the coupling transforms in the returned transform list *)
Couplings == {i \in 1..Len(Transforms) : Transforms[i].kind = "rq_spline"}

(* a warning with this text was issued by the last call *)
Warned(text) == \E k \in 1..Len(warned) : warned[k] = text

(* ceil(d / 2) ones followed by zeros, d entries in all *)
HalfMask(d) == [k \in 1..d |-> IF 2 * k <= d + 1 THEN 1 ELSE 0]

(* the value of an int passed as num_stacks *)
StacksAsked == args.num_stacks.halves \div 2

(* C2: for an int num_stacks >= 0 and a factory, the returned composition  *)
(* holds num_stacks spline coupling transforms followed by one             *)
(* ReversePermutation(input_dim), num_stacks + 1 transforms in all.        *)
C2_TransformList ==
    ( /\ call.fn = "coupling_spline_transformer"
      /\ args.net_create_fn # None
      /\ args.num_stacks.isint /\ StacksAsked >= 0 )
    => /\ ~exited
       /\ ret # None
       /\ The(ret).kind = "CompositeTransform"
       /\ Len(The(ret).transforms) = StacksAsked + 1
       /\ \A i \in 1..StacksAsked : The(ret).transforms[i].kind = "rq_spline"
       /\ Last(The(ret).transforms) = [kind |-> "ReversePermutation", features |-> args.input_dim]

(* C2 witness: a transformer built from two stacks *)
C2_Witness ==
    /\ call.fn = "coupling_spline_transformer"
    /\ Returned
    /\ args.num_stacks.isint /\ StacksAsked = 2
    /\ args.input_dim = 3

(* C5: the base density of the flow coupling_flow returns is the one named *)
(* by base_density; 'Gaussian' names the standard normal over input_dim    *)
(* features.                                                               *)
C5_BaseDensitySelected ==
    (call.fn = "coupling_flow" /\ Returned) =>
        The(ret).distribution =
            [ kind  |-> IF args.base_density = "Gaussian" THEN "StandardNormal"
                        ELSE args.base_density,
              shape |-> <<args.input_dim>> ]

(* C6: without a factory, both functions warn 'No net create function was *)
(* passed.', end the program, and return nothing; nothing built is ever    *)
(* returned for a None factory.                                            *)
C6_NoFactoryExits ==
    (call.fn # "none" /\ args.net_create_fn = None) =>
        /\ exited
        /\ ret = None
        /\ warned = <<"No net create function was passed.">>

(* C6 witness: coupling_flow called without a factory *)
C6_Witness ==
    /\ call.fn = "coupling_flow"
    /\ args.net_create_fn = None
    /\ exited

(* C7: every coupling transform of a transformer gets a mask of input_dim  *)
(* entries: the caller's mask, without the mask warning, when it is given  *)
(* and has input_dim entries; otherwise the mask warning is issued and the *)
(* mask is ceil(input_dim/2) ones followed by zeros.                       *)
C7_MaskLength ==
    (call.fn = "coupling_spline_transformer" /\ Returned) =>
        LET d    == args.input_dim
            fits == args.mask # None /\ Len(The(args.mask)) = d
        IN  /\ Warned("mask must match the input dimension") <=> ~fits
            /\ \A i \in Couplings :
                  /\ Len(Transforms[i].mask) = d
                  /\ Transforms[i].mask = IF fits THEN The(args.mask) ELSE HalfMask(d)

(* C7 witness: a mask of the wrong length replaced for three features *)
C7_Witness ==
    /\ call.fn = "coupling_spline_transformer"
    /\ Returned
    /\ args.input_dim = 3
    /\ args.mask = Some(<<0, 1>>)
    /\ Couplings # {}

(* C10: all coupling transforms of a returned stack have the same mask and *)
(* the only permutation is the last transform; a flow built by             *)
(* coupling_flow uses ceil(input_dim/2) ones followed by zeros as this     *)
(* mask.                                                                   *)
C10_SameMask ==
    Returned =>
        /\ \A i, j \in Couplings : Transforms[i].mask = Transforms[j].mask
        /\ \A i \in 1..(Len(Transforms) - 1) : Transforms[i].kind # "ReversePermutation"
        /\ call.fn = "coupling_flow" =>
              \A i \in Couplings : Transforms[i].mask = HalfMask(args.input_dim)

(* C10 witness: a flow of two stacks over three features *)
C10_Witness ==
    /\ call.fn = "coupling_flow"
    /\ Returned
    /\ args.input_dim = 3
    /\ Cardinality(Couplings) = 2

====
